---- MODULE Spec2Model ----
(***************************************************************************)
(* Forecasting and inventory-risk engine of the ops command center:        *)
(* the damped-trend forecaster, the inventory health classification, the   *)
(* stockout risk scorer (pages/2_Distributor_Inventory.py) and the visit   *)
(* attribution query (pages/6_Visit_Performance.py).                       *)
(*                                                                         *)
(* Every operation is a function of its arguments; the state records the   *)
(* last call: which operation ran (op), on what (args), and what it        *)
(* returned (ret).  A call starts from the idle state and the page goes   *)
(* back to idle when it has rendered the result.                           *)
(*                                                                         *)
(* Numbers.  The code computes in IEEE doubles; the model computes in      *)
(* fixed point: a quantity q (units, dollars, weeks, score points) is the  *)
(* integer q*FP, every division rounds toward minus infinity.  Factors     *)
(* are kept as the code writes them, in hundredths (0.92 is 92 per 100)    *)
(* or thousandths.  A missing value (SQL NULL, pandas NaN, Python None)    *)
(* is the empty sequence; a present value v is <<v>>.                      *)
(***************************************************************************)
EXTENDS Integers, Sequences, FiniteSets

VARIABLES op, args, ret

vars == <<op, args, ret>>

\* Fixed-point resolution: FP steps per unit.
FP == 100
\* Longest series handed to the forecaster.
MaxLen == 8
\* Largest forecast horizon requested.
MaxH == 3

\* Weekly observations the forecaster is tried on, in units.
ObsUnits == {0, 50, 100}
Obs == {u * FP : u \in ObsUnits}

None == <<>>
Some(v) == <<v>>
IsNull(x) == x = <<>>
Val(x) == x[1]

Max(a, b) == IF a >= b THEN a ELSE b
Min(a, b) == IF a <= b THEN a ELSE b

RECURSIVE SumSeq(_)
SumSeq(s) == IF s = <<>> THEN 0 ELSE s[1] + SumSeq(Tail(s))

\* np.mean / Series.mean of a non-empty sequence
Mean(s) == SumSeq(s) \div Len(s)

\* y[-k:], the last k elements (all of them when there are fewer)
LastN(s, k) == IF Len(s) <= k THEN s ELSE SubSeq(s, Len(s) - k + 1, Len(s))
\* y[:k], the first k elements
FirstN(s, k) == IF Len(s) <= k THEN s ELSE SubSeq(s, 1, k)

\* floor(sqrt(n)) for n >= 0, by bisection on [lo, hi]
RECURSIVE SqrtBetween(_, _, _)
SqrtBetween(n, lo, hi) ==
  IF lo >= hi THEN lo
  ELSE LET mid == (lo + hi + 1) \div 2
       IN IF mid * mid <= n THEN SqrtBetween(n, mid, hi)
          ELSE SqrtBetween(n, lo, mid - 1)
ISqrt(n) == SqrtBetween(n, 0, 46340)

\* sum of squared deviations from m
RECURSIVE SumSqDev(_, _)
SumSqDev(s, m) ==
  IF s = <<>> THEN 0 ELSE (s[1] - m) * (s[1] - m) + SumSqDev(Tail(s), m)

\* np.std(y): population standard deviation (ddof = 0)
NpStd(s) == ISqrt(SumSqDev(s, Mean(s)) \div Len(s))

----------------------------------------------------------------------------
(* _forecast_single_series                                                 *)

damping == 92

WeeklyTrend_NoShortBranch(y) ==
  LET n == Len(y)
  IN IF n >= 8
       THEN (Mean(SubSeq(y, n - 3, n)) - Mean(SubSeq(y, n - 7, n - 4))) \div 4
     ELSE 0
\* weekly_trend: last 4 vs previous 4 when n >= 8, else (y[-1] - y[-4]) / 4
WeeklyTrend(y) ==
  LET n == Len(y)
  IN IF n >= 8
       THEN (Mean(SubSeq(y, n - 3, n)) - Mean(SubSeq(y, n - 7, n - 4))) \div 4
     ELSE IF n >= 4
       THEN (y[n] - y[n - 3]) \div 4
     ELSE 0

RecentMean(y) == IF Len(y) >= 4 THEN Mean(LastN(y, 4)) ELSE Mean(y)

RECURSIVE Levels_Undamped(_, _, _, _)
Levels_Undamped(level, trend, overall_mean, steps) ==
  IF steps = 0 THEN <<>>
  ELSE LET current_level == level + trend + (5 * (overall_mean - level)) \div 100
       IN <<current_level>> \o Levels_Undamped(current_level, trend, overall_mean, steps - 1)
\* the loop of lines 810-815: entry i of the result is current_level after
\* i iterations, before the floor is applied
RECURSIVE Levels(_, _, _, _)
Levels(level, trend, overall_mean, steps) ==
  IF steps = 0 THEN <<>>
  ELSE LET current_trend == (trend * damping) \div 100
           current_level == level + current_trend
                              + (5 * (overall_mean - level)) \div 100
       IN <<current_level>>
            \o Levels(current_level, current_trend, overall_mean, steps - 1)

\* floor = recent_mean * 0.5
FloorOf(y) == (RecentMean(y) * 5) \div 10

ApplyFloor_Identity(raw, floor) == raw
ApplyFloor_ZeroOnly(raw, floor) == [i \in 1..Len(raw) |-> Max(raw[i], 0)]
\* forecast = np.maximum(forecast, floor)
ApplyFloor(raw, floor) == [i \in 1..Len(raw) |-> Max(raw[i], floor)]

Cv_Uncapped(y) ==
  IF Mean(y) > 0 THEN (NpStd(y) * 1000) \div Mean(y) ELSE 150
\* cv = np.std(y) / overall_mean if overall_mean > 0 else 0.15, capped at
\* 0.25; in thousandths
Cv(y) ==
  LET overall_mean == Mean(y)
      cv == IF overall_mean > 0 THEN (NpStd(y) * 1000) \div overall_mean ELSE 150
  IN Min(cv, 250)

\* horizon_factor = 1 + 0.1 * sqrt(t), in thousandths
HorizonFactor(t) == 1000 + ISqrt(t * 1000000) \div 10

\* uncertainty = cv * horizon_factor * forecast
Uncertainty(cv, t, point) == (((cv * HorizonFactor(t)) \div 1000) * point) \div 1000

\* ci_80_lower = np.maximum(forecast - 0.8 * uncertainty, floor * 0.8)
Ci80Lower(point, unc, floor) == Max(point - (8 * unc) \div 10, (floor * 8) \div 10)
\* ci_80_upper = forecast + 0.8 * uncertainty
Ci80Upper(point, unc) == point + (8 * unc) \div 10
Ci95Lower_FloorAbove(point, unc, floor) == Max(point - (12 * unc) \div 10, floor)
\* ci_95_lower = np.maximum(forecast - 1.2 * uncertainty, floor * 0.6)
Ci95Lower(point, unc, floor) == Max(point - (12 * unc) \div 10, (floor * 6) \div 10)
\* ci_95_upper = forecast + 1.2 * uncertainty
Ci95Upper(point, unc) == point + (12 * unc) \div 10

forecast_single_series(y, forecast_weeks) ==
  LET overall_mean == Mean(y)
      recent_mean == RecentMean(y)
      raw == Levels(recent_mean, WeeklyTrend(y), overall_mean, forecast_weeks)
      floor == FloorOf(y)
      forecast == ApplyFloor(raw, floor)
      cv == Cv(y)
      unc == [i \in 1..forecast_weeks |-> Uncertainty(cv, i, forecast[i])]
      H == 1..forecast_weeks
  IN [ensemble    |-> forecast,
      ci_80_lower |-> [i \in H |-> Ci80Lower(forecast[i], unc[i], floor)],
      ci_80_upper |-> [i \in H |-> Ci80Upper(forecast[i], unc[i])],
      ci_95_lower |-> [i \in H |-> Ci95Lower(forecast[i], unc[i], floor)],
      ci_95_upper |-> [i \in H |-> Ci95Upper(forecast[i], unc[i])]]

YAfterCall_Floored(y) == [i \in 1..Len(y) |-> Max(y[i], FloorOf(y))]
\* the caller's array y after _forecast_single_series has run: the body only
\* reads y (np.zeros and np.maximum build new arrays)
YAfterCall(y) == y

\* all sequences over S of length lo..hi
SeqsOf(S, lo, hi) == UNION {[1..n -> S] : n \in lo..hi}

\* four weeks of steady growth: 40, 50, 60, 70 units
GrowthSeries == <<40 * FP, 50 * FP, 60 * FP, 70 * FP>>

Series == SeqsOf(Obs, 1, MaxLen) \cup {GrowthSeries}

----------------------------------------------------------------------------
(* generate_ensemble_forecast                                              *)

\* trend_df rows, as load_trend_data returns them: one row per week that
\* has orders or depletion, ascending by week_start
TrendRow(w, dep, val) == [week_start |-> w, qty_depleted |-> dep, order_value |-> val]

RECURSIVE InsertRow(_, _)
InsertRow(r, sorted) ==
  IF sorted = <<>> THEN <<r>>
  ELSE IF r.week_start < sorted[1].week_start THEN <<r>> \o sorted
  ELSE <<sorted[1]>> \o InsertRow(r, Tail(sorted))

\* df.sort_values('week_start')
RECURSIVE SortByWeek(_)
SortByWeek(df) ==
  IF df = <<>> THEN <<>>
  ELSE InsertRow(df[Len(df)], SortByWeek(SubSeq(df, 1, Len(df) - 1)))

\* df.dropna(subset=['qty_depleted', 'order_value'])
NotNa(r) == ~IsNull(r.qty_depleted) /\ ~IsNull(r.order_value)
\* df[(df['qty_depleted'] > 0) | (df['order_value'] > 0)]; NaN > 0 is False
Positive(x) == ~IsNull(x) /\ Val(x) > 0
NonZero(r) == Positive(r.qty_depleted) \/ Positive(r.order_value)

\* .fillna(0)
FillNa0(x) == IF IsNull(x) THEN 0 ELSE Val(x)

\* the rows the forecast is computed from, or None when fewer than 4
DfClean(trend_df) ==
  LET df == SortByWeek(trend_df)
      dropped == SelectSeq(df, NotNa)
      nonzero == SelectSeq(df, NonZero)
  IN IF Len(trend_df) < 4 THEN None
     ELSE IF Len(dropped) >= 4 THEN Some(dropped)
     ELSE IF Len(nonzero) >= 4 THEN Some(nonzero)
     ELSE None

generate_ensemble_forecast(trend_df, forecast_weeks) ==
  LET clean == DfClean(trend_df)
  IN IF IsNull(clean) THEN None
     ELSE
       LET df_clean == Val(clean)
           n == Len(df_clean)
           y_depletion == [i \in 1..n |-> FillNa0(df_clean[i].qty_depleted)]
           y_orders == [i \in 1..n |-> FillNa0(df_clean[i].order_value)]
           last_week == df_clean[n].week_start
       IN Some([forecast |->
                  [week_start |-> [i \in 1..forecast_weeks |-> last_week + i],
                   depletion  |-> forecast_single_series(y_depletion, forecast_weeks),
                   orders     |-> forecast_single_series(y_orders, forecast_weeks)],
                historical |-> df_clean])

\* Weeks the trend query can return a row for.
MaxWeeks == 5
\* Activity of one week, in units (quantity) and dollars (order value).
WeekUnits == 100

\* what a week of trend_df can hold: no value for depletion but orders,
\* zero activity, or both positive
RowKinds ==
  { <<None, Some(WeekUnits * FP)>>,
    <<Some(0), Some(0)>>,
    <<Some(WeekUnits * FP), Some(WeekUnits * FP)>> }

\* a trend_df: a set of weeks with a row each, ascending; a week with no
\* row has kind <<>>
RECURSIVE RowsOf(_, _)
RowsOf(f, w) ==
  IF w > MaxWeeks THEN <<>>
  ELSE (IF f[w] = <<>> THEN <<>>
        ELSE <<TrendRow(w, f[w][1], f[w][2])>>) \o RowsOf(f, w + 1)

TrendDfs == {RowsOf(f, 1) : f \in [1..MaxWeeks -> RowKinds \cup {<<>>}]}

----------------------------------------------------------------------------
(* load_inventory_data: the final SELECT over one row of "combined"        *)

\* Largest quantity (units ordered, units depleted) of a combined row.
MaxQty == 30
\* Largest weekly depletion rate of a combined row, in units per week.
MaxRate == 2

\* COALESCE(x, 0)
Coalesce0(x) == IF IsNull(x) THEN 0 ELSE Val(x)

\* ROUND(n / d, digits) for n >= 0, d > 0, as an integer count of
\* 10^-digits steps (scale = 10^digits); halves round away from zero
RoundDiv(n, d, scale) == (2 * n * scale + d) \div (2 * d)

\* order_depletion_ratio, in hundredths: NULL unless depletion is positive;
\* NULL too when qty_ordered is NULL (arithmetic on NULL)
OrderDepletionRatio(qty_ordered, total_qty_depleted) ==
  IF Coalesce0(total_qty_depleted) > 0
    THEN IF IsNull(qty_ordered) THEN None
         ELSE Some(RoundDiv(Val(qty_ordered), Val(total_qty_depleted), 100))
  ELSE None

\* weeks_of_inventory, in tenths: ROUND(qty_ordered / weekly_depletion_rate, 1)
WeeksOfInventory(qty_ordered, weekly_depletion_rate) ==
  IF Coalesce0(weekly_depletion_rate) > 0
    THEN IF IsNull(qty_ordered) THEN None
         ELSE Some(RoundDiv(Val(qty_ordered) * FP, Val(weekly_depletion_rate), 10))
  ELSE None

\* a SQL comparison of a nullable value is TRUE only when the value is there
SqlGt0(x) == ~IsNull(x) /\ Val(x) > 0
SqlEq0(x) == ~IsNull(x) /\ Val(x) = 0

RatioAbove_NonStrict(qty_ordered, total_qty_depleted) ==
  ~IsNull(qty_ordered) /\ 10 * Val(qty_ordered) >= 13 * Val(total_qty_depleted)
\* (qty_ordered * 1.0 / total_qty_depleted) > 1.3, for total_qty_depleted > 0:
\* the quotient of two integers is correctly rounded, so it exceeds the
\* double 1.3 exactly when the exact ratio exceeds 13/10
RatioAbove(qty_ordered, total_qty_depleted) ==
  ~IsNull(qty_ordered) /\ 10 * Val(qty_ordered) > 13 * Val(total_qty_depleted)
\* (qty_ordered * 1.0 / total_qty_depleted) < 0.7
RatioBelow(qty_ordered, total_qty_depleted) ==
  ~IsNull(qty_ordered) /\ 10 * Val(qty_ordered) < 7 * Val(total_qty_depleted)

\* the CASE of lines 374-381: the first WHEN that is TRUE
InventoryStatus(qty_ordered, total_qty_depleted) ==
  LET dep == Coalesce0(total_qty_depleted)
  IN IF dep = 0 /\ SqlGt0(qty_ordered) THEN "No Depletion Data"
     ELSE IF SqlEq0(qty_ordered) /\ dep > 0 THEN "No Recent Orders"
     ELSE IF dep > 0 /\ RatioAbove(qty_ordered, total_qty_depleted) THEN "Overstock"
     ELSE IF dep > 0 /\ RatioBelow(qty_ordered, total_qty_depleted) THEN "Understock"
     ELSE IF dep > 0 THEN "Balanced"
     ELSE "No Data"

load_inventory_data(row) ==
  [total_qty_ordered     |-> row.qty_ordered,
   total_qty_depleted    |-> Coalesce0(row.total_qty_depleted),
   weekly_depletion_rate |-> Coalesce0(row.weekly_depletion_rate),
   order_depletion_ratio |-> OrderDepletionRatio(row.qty_ordered, row.total_qty_depleted),
   weeks_of_inventory    |-> WeeksOfInventory(row.qty_ordered, row.weekly_depletion_rate),
   inventory_status      |-> InventoryStatus(row.qty_ordered, row.total_qty_depleted)]

\* a nullable value drawn from 0..hi
Nullable(hi, scale) == {None} \cup {Some(v * scale) : v \in 0..hi}

CombinedRows ==
  [qty_ordered : Nullable(MaxQty, 1),
   total_qty_depleted : Nullable(MaxQty, 1),
   weekly_depletion_rate : Nullable(MaxRate, FP)]

----------------------------------------------------------------------------
(* main: the status counts of the weeks-of-inventory mode                  *)

\* the choices of the three selectors of the filter section
LookbackOptions == {30, 60, 90, 180}
UnderstockOptions == {2, 3, 4, 6}
OverstockOptions == {8, 10, 12, 16}

\* vip_depletion.weekly_depletion_rate, in hundredths:
\* SUM(Qty) / (lookback_days / 7.0); NULL where no depletion row is joined
VipWeeklyRate(total_qty_depleted, lookback_days) ==
  IF IsNull(total_qty_depleted) THEN None
  ELSE Some((Val(total_qty_depleted) * FP * 7) \div lookback_days)

\* Most distributors in inventory_df.
MaxRows == 2

\* units ordered by and depleted through one distributor in the lookback
\* period; depletion rows hold positive quantities only
OrderedQtys == {None, Some(0), Some(21), Some(42), Some(84)}
DepletedQtys == {None, Some(90)}
Distributors == [qty_ordered : OrderedQtys, total_qty_depleted : DepletedQtys]
DistributorLists == UNION {[1..n -> Distributors] : n \in 0..MaxRows}

\* inventory_df = load_inventory_data(lookback_days), one row a distributor
InventoryDf(distributors, lookback_days) ==
  [i \in 1..Len(distributors) |->
     load_inventory_data(
       [qty_ordered |-> distributors[i].qty_ordered,
        total_qty_depleted |-> distributors[i].total_qty_depleted,
        weekly_depletion_rate |->
          VipWeeklyRate(distributors[i].total_qty_depleted, lookback_days)])]

\* a comparison of a pandas column that may hold NaN: False on NaN;
\* weeks_of_inventory is in tenths
WeeksAbove(r, threshold) ==
  ~IsNull(r.weeks_of_inventory) /\ Val(r.weeks_of_inventory) > threshold * 10
WeeksBelow(r, threshold) ==
  ~IsNull(r.weeks_of_inventory) /\ Val(r.weeks_of_inventory) < threshold * 10
WeeksBetween(r, lo, hi) ==
  /\ ~IsNull(r.weeks_of_inventory)
  /\ Val(r.weeks_of_inventory) >= lo * 10
  /\ Val(r.weeks_of_inventory) <= hi * 10

\* lines 1010-1024 of main, with all distributors selected
status_counts(inventory_df, understock_threshold, overstock_threshold) ==
  LET filtered_df == inventory_df
      has_depletion_df == SelectSeq(filtered_df, LAMBDA r : r.total_qty_depleted > 0)
  IN [has_depletion |-> Len(has_depletion_df),
      overstock_count |->
        Len(SelectSeq(has_depletion_df, LAMBDA r : WeeksAbove(r, overstock_threshold))),
      understock_count |->
        Len(SelectSeq(has_depletion_df, LAMBDA r : WeeksBelow(r, understock_threshold))),
      balanced_count |->
        Len(SelectSeq(has_depletion_df,
                      LAMBDA r : WeeksBetween(r, understock_threshold, overstock_threshold))),
      no_depletion_count |-> Len(filtered_df) - Len(has_depletion_df)]

----------------------------------------------------------------------------
(* calculate_stockout_risk: the loop body, for one row of inventory_df     *)

\* Longest weekly history of one distributor.
MaxHist == 9
\* Latest day (counted from an arbitrary day 0) on which the page is rendered.
MaxToday == 1

\* Series.std(): sample standard deviation (ddof = 1), for two values or more
PdStd(s) == ISqrt(SumSqDev(s, Mean(s)) \div (Len(s) - 1))

VelocityTrend_OverRecent(hist) ==
  IF Len(hist) >= 4
    THEN LET recent_4wk == Mean(LastN(hist, 4))
             prev_4wk == IF Len(hist) >= 8 THEN Mean(FirstN(hist, 4)) ELSE recent_4wk
         IN IF recent_4wk > 0 THEN ((recent_4wk - prev_4wk) * 1000) \div recent_4wk ELSE 0
  ELSE 0
\* velocity_trend, in thousandths: (recent_4wk - prev_4wk) / prev_4wk, with
\* prev_4wk the FIRST four weeks when there are 8 or more, else recent_4wk
VelocityTrend(hist) ==
  IF Len(hist) >= 4
    THEN LET recent_4wk == Mean(LastN(hist, 4))
             prev_4wk == IF Len(hist) >= 8 THEN Mean(FirstN(hist, 4)) ELSE recent_4wk
         IN IF prev_4wk > 0 THEN ((recent_4wk - prev_4wk) * 1000) \div prev_4wk ELSE 0
  ELSE 0

\* velocity_cv, in thousandths: std / mean, 0.2 by default
VelocityCv(hist) ==
  IF Len(hist) >= 4 /\ Mean(hist) > 0
    THEN (PdStd(hist) * 1000) \div Mean(hist)
  ELSE 200

AdjustedWeeklyRate_NoTrend(weekly_rate, velocity_trend) ==
  IF weekly_rate > 0 THEN weekly_rate ELSE 0
\* adjusted_weekly_rate = weekly_rate * (1 + velocity_trend * 0.5) if
\* weekly_rate > 0 else 0
AdjustedWeeklyRate(weekly_rate, velocity_trend) ==
  IF weekly_rate > 0
    THEN (weekly_rate * (1000 + (velocity_trend * 5) \div 10)) \div 1000
  ELSE 0

\* weeks_until_stockout (lines 677-685)
WeeksUntilStockout(adjusted_weekly_rate, qty_ordered, weeks_inv) ==
  IF adjusted_weekly_rate > 0 /\ qty_ordered > 0
    THEN Some((qty_ordered * FP) \div adjusted_weekly_rate)
  ELSE IF ~IsNull(weeks_inv) /\ Val(weeks_inv) > 0 THEN weeks_inv
  ELSE None

\* predicted_stockout_date = today + timedelta(weeks=weeks_until_stockout)
StockoutDate(today, weeks_until_stockout) ==
  IF IsNull(weeks_until_stockout) THEN None
  ELSE Some(today + (Val(weeks_until_stockout) * 7) \div FP)

RawRisk_SignedTrend(weeks_until_stockout, velocity_trend, velocity_cv) ==
  LET base_risk == Max(0, Min(100 * FP, 100 * FP - Val(weeks_until_stockout) * 8))
      trend_modifier == 1000 + (velocity_trend * 3) \div 10
      consistency_modifier == 1000 + Min(300, (velocity_cv * 5) \div 10)
  IN (((base_risk * trend_modifier) \div 1000) * consistency_modifier) \div 1000
\* base_risk * trend_modifier * consistency_modifier, before the cap
RawRisk(weeks_until_stockout, velocity_trend, velocity_cv) ==
  LET base_risk == Max(0, Min(100 * FP, 100 * FP - Val(weeks_until_stockout) * 8))
      trend_modifier == 1000 + Max(0, (velocity_trend * 3) \div 10)
      consistency_modifier == 1000 + Min(300, (velocity_cv * 5) \div 10)
  IN (((base_risk * trend_modifier) \div 1000) * consistency_modifier) \div 1000

RiskScore_NoCap(weeks_until_stockout, velocity_trend, velocity_cv, qty_depleted) ==
  IF ~IsNull(weeks_until_stockout)
    THEN RawRisk(weeks_until_stockout, velocity_trend, velocity_cv)
  ELSE IF qty_depleted > 0 THEN 50 * FP ELSE 0
\* risk_score (lines 689-695)
RiskScore(weeks_until_stockout, velocity_trend, velocity_cv, qty_depleted) ==
  IF ~IsNull(weeks_until_stockout)
    THEN Min(100 * FP, RawRisk(weeks_until_stockout, velocity_trend, velocity_cv))
  ELSE IF qty_depleted > 0 THEN 50 * FP ELSE 0

ReorderQty_NoClamp(adjusted_weekly_rate, qty_ordered) ==
  IF adjusted_weekly_rate > 0 THEN adjusted_weekly_rate * 8 - qty_ordered ELSE 0
\* reorder_qty (lines 698-702, 714)
ReorderQty(adjusted_weekly_rate, qty_ordered) ==
  IF adjusted_weekly_rate > 0
    THEN Max(0, adjusted_weekly_rate * 8 - qty_ordered)
  ELSE 0

\* urgency (lines 699-715)
Urgency(adjusted_weekly_rate, weeks_until_stockout) ==
  IF adjusted_weekly_rate > 0
    THEN IF ~IsNull(weeks_until_stockout) /\ Val(weeks_until_stockout) < 3 * FP
           THEN "CRITICAL"
         ELSE IF ~IsNull(weeks_until_stockout) /\ Val(weeks_until_stockout) < 6 * FP
           THEN "HIGH"
         ELSE IF ~IsNull(weeks_until_stockout) /\ Val(weeks_until_stockout) < 10 * FP
           THEN "MEDIUM"
         ELSE "LOW"
  ELSE "N/A"

calculate_stockout_risk(row, hist, today) ==
  LET weeks_inv == row.weeks_of_inventory
      weekly_rate == row.weekly_depletion_rate
      qty_ordered == row.total_qty_ordered
      qty_depleted == row.total_qty_depleted
      velocity_trend == VelocityTrend(hist)
      velocity_cv == VelocityCv(hist)
      adjusted_weekly_rate == AdjustedWeeklyRate(weekly_rate, velocity_trend)
      weeks_until_stockout == WeeksUntilStockout(adjusted_weekly_rate, qty_ordered, weeks_inv)
  IN [current_inventory_weeks |-> weeks_inv,
      weekly_depletion_rate   |-> weekly_rate,
      adjusted_weekly_rate    |-> adjusted_weekly_rate,
      velocity_trend          |-> velocity_trend,
      velocity_cv             |-> velocity_cv,
      weeks_until_stockout    |-> weeks_until_stockout,
      predicted_stockout_date |-> StockoutDate(today, weeks_until_stockout),
      risk_score              |-> RiskScore(weeks_until_stockout, velocity_trend,
                                            velocity_cv, qty_depleted),
      reorder_qty_suggested   |-> ReorderQty(adjusted_weekly_rate, qty_ordered),
      reorder_urgency         |-> Urgency(adjusted_weekly_rate, weeks_until_stockout),
      qty_ordered_period      |-> qty_ordered,
      qty_depleted_period     |-> qty_depleted]

\* current aggregates of one distributor: weeks, units per week, units
WeeksInvUnits == {0, 4}
RateUnits == {0, 5, 10}
OrderedUnits == {0, 20, 50}
DepletedUnits == {0, 10}

InventoryRows ==
  [weeks_of_inventory    : {None} \cup {Some(w * FP) : w \in WeeksInvUnits},
   weekly_depletion_rate : {r * FP : r \in RateUnits},
   total_qty_ordered     : {q * FP : q \in OrderedUnits},
   total_qty_depleted    : {d * FP : d \in DepletedUnits}]

\* one week of depletion in a distributor's history, in units: histories
\* with idle weeks, and histories that go from 1 unit to 100
HistUnitSets == {{0, 100}, {1, 100}}

Histories ==
  UNION {[1..n -> {u * FP : u \in S}] : n \in 0..MaxHist, S \in HistUnitSets}

----------------------------------------------------------------------------
(* Binary floating point: the FLOAT64 and float arithmetic of the rate,    *)
(* the assessment and the pipeline, with a significand of Precision bits   *)

\* Bits of the significand.
Precision == 11

RECURSIVE Pow2(_)
Pow2(k) == IF k = 0 THEN 1 ELSE 2 * Pow2(k - 1)

\* significands lie in MinSignificand .. MaxSignificand - 1
MinSignificand == Pow2(Precision - 1)
MaxSignificand == Pow2(Precision)

\* A float is the fraction num / den in lowest terms, den a power of two.
RECURSIVE Reduced(_, _)
Reduced(n, d) ==
  IF d > 1 /\ n % 2 = 0 THEN Reduced(n \div 2, d \div 2) ELSE [num |-> n, den |-> d]

\* n / d = (n' / d') * 2^e with 2^(Precision-1) <= n' / d' < 2^Precision
RECURSIVE Scaled(_, _, _)
Scaled(n, d, e) ==
  IF n >= MaxSignificand * d THEN Scaled(n, 2 * d, e + 1)
  ELSE IF n < MinSignificand * d THEN Scaled(2 * n, d, e - 1)
  ELSE <<n, d, e>>

\* round to nearest, ties to even
RoundHalfEven(n, d) ==
  LET m == n \div d
      r == n % d
  IN IF 2 * r > d \/ (2 * r = d /\ m % 2 = 1) THEN m + 1 ELSE m

\* the float nearest to (n / d) * 2^e, for n >= 0 and d > 0
FlAbs(n, d, e) ==
  IF n = 0 THEN [num |-> 0, den |-> 1]
  ELSE LET s == Scaled(n, d, e)
           m == RoundHalfEven(s[1], s[2])
       IN IF s[3] >= 0 THEN [num |-> m * Pow2(s[3]), den |-> 1]
          ELSE Reduced(m, Pow2(-s[3]))

\* the float nearest to (n / d) * 2^e, for d > 0
FlExp(n, d, e) ==
  IF n < 0 THEN LET a == FlAbs(-n, d, e) IN [num |-> -a.num, den |-> a.den]
  ELSE FlAbs(n, d, e)

\* the float nearest to n / d, for d > 0
Fl(n, d) == FlExp(n, d, 0)

\* the exponent of a power of two
RECURSIVE Log2(_)
Log2(d) == IF d = 1 THEN 0 ELSE 1 + Log2(d \div 2)

FlAdd(a, b) ==
  LET d == Max(a.den, b.den)
  IN Fl(a.num * (d \div a.den) + b.num * (d \div b.den), d)

FlSub(a, b) ==
  LET d == Max(a.den, b.den)
  IN Fl(a.num * (d \div a.den) - b.num * (d \div b.den), d)

FlMul(a, b) == FlExp(a.num * b.num, 1, -(Log2(a.den) + Log2(b.den)))

\* a / b for b > 0
FlDiv(a, b) == Fl(a.num * b.den, a.den * b.num)

FlLe(a, b) == a.num * b.den <= b.num * a.den

\* max(0, a)
FlMax0(a) == IF a.num > 0 THEN a ELSE Fl(0, 1)

----------------------------------------------------------------------------
(* generate_pipeline_forecast, fed by load_inventory_data and              *)
(* calculate_stockout_risk as main feeds it                                *)

\* forecast_weeks as main passes it, and by default
DefaultForecastWeeks == 12
\* Most units depleted, and most units ordered, by one distributor in the
\* lookback period.
MaxDepleted == 6
MaxOrdered == 14

\* vip_depletion.weekly_depletion_rate: SUM(Qty) / (lookback_days / 7.0),
\* COALESCEd to 0 by the final SELECT
WeeklyDepletionRate(qty_depleted, lookback_days) ==
  IF qty_depleted > 0
    THEN FlDiv(Fl(qty_depleted, 1), FlDiv(Fl(lookback_days, 1), Fl(7, 1)))
  ELSE Fl(0, 1)

\* ROUND(x, 1): to one decimal, halves away from zero
Round1(x) ==
  LET n == 10 * x.num
      q == IF n >= 0 THEN (2 * n + x.den) \div (2 * x.den)
           ELSE -((2 * (-n) + x.den) \div (2 * x.den))
  IN Fl(q, 10)

\* weeks_of_inventory of the final SELECT
FloatWeeksOfInventory(qty_ordered, weekly_depletion_rate) ==
  IF weekly_depletion_rate.num > 0
    THEN Some(Round1(FlDiv(Fl(qty_ordered, 1), weekly_depletion_rate)))
  ELSE None

\* mean of four weeks of the history
Mean4(weeks) == Fl(SumSeq(weeks), 4)

\* velocity_trend (lines 658-665)
FloatVelocityTrend(hist) ==
  IF Len(hist) >= 4
    THEN LET recent_4wk == Mean4(LastN(hist, 4))
             prev_4wk == IF Len(hist) >= 8 THEN Mean4(FirstN(hist, 4)) ELSE recent_4wk
         IN IF prev_4wk.num > 0
              THEN FlDiv(FlSub(recent_4wk, prev_4wk), prev_4wk)
            ELSE Fl(0, 1)
  ELSE Fl(0, 1)

\* trend_factor = 1 + (velocity_trend * 0.5);
\* adjusted_weekly_rate = weekly_rate * trend_factor if weekly_rate > 0 else 0
FloatAdjustedWeeklyRate(weekly_rate, velocity_trend) ==
  LET trend_factor == FlAdd(Fl(1, 1), FlMul(velocity_trend, Fl(1, 2)))
  IN IF weekly_rate.num > 0 THEN FlMul(weekly_rate, trend_factor) ELSE Fl(0, 1)

\* weeks_until_stockout (lines 677-685)
FloatWeeksUntilStockout(adjusted_weekly_rate, qty_ordered, weeks_inv) ==
  IF adjusted_weekly_rate.num > 0 /\ qty_ordered > 0
    THEN Some(FlDiv(Fl(qty_ordered, 1), adjusted_weekly_rate))
  ELSE IF ~IsNull(weeks_inv) /\ Val(weeks_inv).num > 0 THEN weeks_inv
  ELSE None

\* the row of stockout_df of one distributor: the fields the pipeline and
\* the export read
StockoutRow(qty_ordered, qty_depleted, lookback_days, hist) ==
  LET weekly_rate == WeeklyDepletionRate(qty_depleted, lookback_days)
      weeks_inv == FloatWeeksOfInventory(qty_ordered, weekly_rate)
      velocity_trend == FloatVelocityTrend(hist)
      adjusted_weekly_rate == FloatAdjustedWeeklyRate(weekly_rate, velocity_trend)
  IN [weekly_depletion_rate |-> weekly_rate,
      adjusted_weekly_rate  |-> adjusted_weekly_rate,
      weeks_until_stockout  |-> FloatWeeksUntilStockout(adjusted_weekly_rate,
                                                        qty_ordered, weeks_inv),
      qty_ordered_period    |-> qty_ordered,
      qty_depleted_period   |-> qty_depleted]

NextInventory_NoFloor(running_inventory, projected_depletion) ==
  FlSub(running_inventory, projected_depletion)
\* running_inventory = max(0, running_inventory - projected_depletion)
NextInventory(running_inventory, projected_depletion) ==
  FlMax0(FlSub(running_inventory, projected_depletion))

\* running_inventory after each of the first n passes of the loop over
\* future_weeks
RECURSIVE RunningInventory(_, _, _)
RunningInventory(current_inv, weekly_rate, n) ==
  IF n = 0 THEN <<>>
  ELSE LET before == RunningInventory(current_inv, weekly_rate, n - 1)
           running_inventory == IF n = 1 THEN current_inv ELSE before[n - 1]
       IN Append(before, NextInventory(running_inventory, weekly_rate))

\* the rows of one distributor, in the order they are appended; forecast_week
\* is counted in days from today
generate_pipeline_forecast(row, forecast_weeks) ==
  LET weekly_rate == row.adjusted_weekly_rate
      current_inv == Fl(row.qty_ordered_period, 1)
      inventory == RunningInventory(current_inv, weekly_rate, forecast_weeks)
  IN [i \in 1..forecast_weeks |->
        LET running_inventory == inventory[i]
        IN [forecast_week         |-> 7 * i,
            week_number           |-> i,
            projected_depletion   |-> weekly_rate,
            projected_inventory   |-> running_inventory,
            is_stockout           |-> FlLe(running_inventory, Fl(0, 1)),
            weekly_depletion_rate |-> weekly_rate]]

\* weekly histories of the distributor: none, or four weeks at one level
\* followed by four weeks at another
PipelineLevels == 1..3
PipelineHistories ==
  {<<>>} \cup {[i \in 1..8 |-> IF i <= 4 THEN a ELSE b] : a, b \in PipelineLevels}

----------------------------------------------------------------------------
(* load_visit_attribution: the attribution query                           *)

\* products sold at the visited accounts
Products == <<"SKU1", "SKU2">>

\* a visit: units_before and units_after by product, as volume_before and
\* volume_after hold them; None where the CTE has no row for the product
\* units sold of one product in one window
UnitVals == {0, 8, 10, 15}
Volumes(units) == [{Products[i] : i \in 1..Len(Products)} -> {None} \cup {Some(u) : u \in units}]
VisitsOver(units) == [units_before : Volumes(units), units_after : Volumes(units)]

\* the rows of visit_attribution of one visit: the products that have a row
\* in volume_after (WHERE a.units_after IS NOT NULL)
AttributedProducts(visit) ==
  SelectSeq(Products, LAMBDA p : ~IsNull(visit.units_after[p]))

\* new_pod_units of one row
NewPodUnits(units_before, units_after) ==
  IF IsNull(units_before) /\ Val(units_after) > 0 THEN Val(units_after) ELSE 0

IncrementalUnits_Signed(units_before, units_after) ==
  IF ~IsNull(units_before) THEN Val(units_after) - Val(units_before) ELSE 0
\* incremental_units of one row
IncrementalUnits(units_before, units_after) ==
  IF ~IsNull(units_before) /\ Val(units_after) > Val(units_before)
    THEN Val(units_after) - Val(units_before)
  ELSE 0

\* SUM(column) over the rows ps
SumOver(ps, F(_)) == SumSeq([i \in 1..Len(ps) |-> F(ps[i])])

\* the row of visit_totals of one visit; None when the visit has no row in
\* visit_attribution
VisitTotals(visit) ==
  LET ps == AttributedProducts(visit)
      new(p) == NewPodUnits(visit.units_before[p], visit.units_after[p])
      inc(p) == IncrementalUnits(visit.units_before[p], visit.units_after[p])
      tot(p) == new(p) + inc(p)
      pod(p) == IF new(p) > 0 THEN 1 ELSE 0
  IN IF ps = <<>> THEN None
     ELSE Some([new_pod_units          |-> SumOver(ps, new),
                incremental_units      |-> SumOver(ps, inc),
                total_attributed_units |-> SumOver(ps, tot),
                new_pods_count         |-> SumOver(ps, pod)])

Converted_AnyFollowup(vt) == ~IsNull(vt)
\* CASE WHEN vt.total_attributed_units > 0 THEN v.task_id END is not NULL
Converted(vt) == ~IsNull(vt) /\ Val(vt).total_attributed_units > 0

\* the final SELECT: visits LEFT JOIN visit_totals, aggregated
load_visit_attribution(visits) ==
  LET n == Len(visits)
      vts == [i \in 1..n |-> VisitTotals(visits[i])]
      idx == [i \in 1..n |-> i]
      col_new(i) == IF IsNull(vts[i]) THEN 0 ELSE Val(vts[i]).new_pod_units
      col_inc(i) == IF IsNull(vts[i]) THEN 0 ELSE Val(vts[i]).incremental_units
      col_tot(i) == IF IsNull(vts[i]) THEN 0 ELSE Val(vts[i]).total_attributed_units
      col_pod(i) == IF IsNull(vts[i]) THEN 0 ELSE Val(vts[i]).new_pods_count
      converted == Cardinality({i \in 1..n : Converted(vts[i])})
  IN [visit_totals |-> vts,
      measurable_visits |-> n,
      visits_converted |-> converted,
      conversion_rate |-> IF n = 0 THEN None ELSE Some((converted * 100 * FP) \div n),
      new_pod_units |-> SumOver(idx, col_new),
      incremental_units |-> SumOver(idx, col_inc),
      total_attributed_units |-> SumOver(idx, col_tot),
      total_new_pods |-> SumOver(idx, col_pod)]

\* the visits the query runs over: none, one visit, or one visit and a
\* second one
OtherUnitVals == {0, 10}
VisitLists ==
  {<<>>} \cup {<<v>> : v \in VisitsOver(UnitVals)}
         \cup {<<v, w>> : v \in VisitsOver(UnitVals), w \in VisitsOver(OtherUnitVals)}

----------------------------------------------------------------------------
(* load_rep_performance: the attribution query grouped by rep              *)

\* the owners of the visits
Reps == <<"rep1", "rep2">>

\* WHERE avc.total_visits >= 5
MinTotalVisits == 5

\* visits of a rep that are too recent to be measured, counted in
\* all_visits only
RecentVisitCounts == {4, 5}

\* a measurable visit with its owner
RepVisits ==
  [rep_id : {Reps[i] : i \in 1..Len(Reps)},
   units_before : Volumes(OtherUnitVals), units_after : Volumes(OtherUnitVals)]
\* a second measurable visit: each product sold 10 units in a window, or none
FollowingRepVisits ==
  [rep_id : {Reps[i] : i \in 1..Len(Reps)},
   units_before : Volumes({10}), units_after : Volumes({10})]
RepVisitLists ==
  {<<>>} \cup {<<v>> : v \in RepVisits}
         \cup {<<v, w>> : v \in RepVisits, w \in FollowingRepVisits}

RowsOfRep_All(visits, rep_id) == [i \in 1..Len(visits) |-> i]
\* the rows of "visits" of one group of GROUP BY v.rep_id
RowsOfRep(visits, rep_id) ==
  SelectSeq([i \in 1..Len(visits) |-> i], LAMBDA i : visits[i].rep_id = rep_id)

\* the row of attribution_stats of one rep; None when the rep has no
\* measurable visit
AttributionStats(visits, rep_id) ==
  LET rows == RowsOfRep(visits, rep_id)
      vt(i) == VisitTotals(visits[i])
      col_new(i) == IF IsNull(vt(i)) THEN 0 ELSE Val(vt(i)).new_pod_units
      col_inc(i) == IF IsNull(vt(i)) THEN 0 ELSE Val(vt(i)).incremental_units
      col_tot(i) == IF IsNull(vt(i)) THEN 0 ELSE Val(vt(i)).total_attributed_units
      col_pod(i) == IF IsNull(vt(i)) THEN 0 ELSE Val(vt(i)).new_pods_count
      col_conv(i) == IF Converted(vt(i)) THEN 1 ELSE 0
  IN IF rows = <<>> THEN None
     ELSE Some([measurable_visits |-> Len(rows),
                visits_converted |-> SumOver(rows, col_conv),
                new_pod_units |-> SumOver(rows, col_new),
                incremental_units |-> SumOver(rows, col_inc),
                total_attributed_units |-> SumOver(rows, col_tot),
                new_pods_count |-> SumOver(rows, col_pod)])

\* the final SELECT for one rep: all_visit_counts LEFT JOIN attribution_stats;
\* None when the rep has fewer than 5 visits in all
RepRow(visits, recent, rep_id) ==
  LET att == AttributionStats(visits, rep_id)
      total_visits == Len(RowsOfRep(visits, rep_id)) + recent[rep_id]
      measurable == IF IsNull(att) THEN 0 ELSE Val(att).measurable_visits
      converted == IF IsNull(att) THEN 0 ELSE Val(att).visits_converted
  IN IF total_visits < MinTotalVisits THEN None
     ELSE Some([rep_id |-> rep_id,
                total_visits |-> total_visits,
                measurable_visits |-> measurable,
                visits_converted |-> converted,
                conversion_rate |->
                  (converted * 100 * FP) \div (IF IsNull(att) THEN 1 ELSE measurable),
                new_pod_units |-> IF IsNull(att) THEN 0 ELSE Val(att).new_pod_units,
                incremental_units |-> IF IsNull(att) THEN 0 ELSE Val(att).incremental_units,
                total_attributed_units |->
                  IF IsNull(att) THEN 0 ELSE Val(att).total_attributed_units,
                new_pods_count |-> IF IsNull(att) THEN 0 ELSE Val(att).new_pods_count])

\* one entry a rep, in the order of Reps
load_rep_performance(visits, recent) ==
  [k \in 1..Len(Reps) |-> RepRow(visits, recent, Reps[k])]

----------------------------------------------------------------------------
Init ==
  /\ op = "idle"
  /\ args = None
  /\ ret = None

\* a call of _forecast_single_series(y, forecast_weeks)
ForecastSingleSeries ==
  /\ op = "idle"
  /\ \E y \in Series, h \in 1..MaxH :
       /\ op' = "forecast_single_series"
       /\ args' = [y |-> y, forecast_weeks |-> h]
       /\ ret' = Some(forecast_single_series(y, h))

\* a second call of _forecast_single_series on the array the first call was
\* given, as that call left it, with the same horizon
ForecastAgain ==
  /\ op = "forecast_single_series"
  /\ op' = "forecast_again"
  /\ args' = [y |-> YAfterCall(YAfterCall(args.y)),
              forecast_weeks |-> args.forecast_weeks]
  /\ ret' = Some(forecast_single_series(YAfterCall(args.y), args.forecast_weeks))

\* a call of generate_ensemble_forecast(trend_df, forecast_weeks)
GenerateEnsembleForecast ==
  /\ op = "idle"
  /\ \E trend_df \in TrendDfs, h \in 1..MaxH :
       /\ op' = "generate_ensemble_forecast"
       /\ args' = [trend_df |-> trend_df, forecast_weeks |-> h]
       /\ ret' = generate_ensemble_forecast(trend_df, h)

\* the final SELECT of load_inventory_data on one combined row
LoadInventoryData ==
  /\ op = "idle"
  /\ \E row \in CombinedRows :
       /\ op' = "load_inventory_data"
       /\ args' = row
       /\ ret' = Some(load_inventory_data(row))

\* calculate_stockout_risk on one inventory row and that distributor's
\* weekly history, on the day `today`
CalculateStockoutRisk ==
  /\ op = "idle"
  /\ \E row \in InventoryRows, hist \in Histories, today \in 0..MaxToday :
       /\ op' = "calculate_stockout_risk"
       /\ args' = [row |-> row, hist |-> hist, today |-> today]
       /\ ret' = Some(calculate_stockout_risk(row, hist, today))

\* the attribution query over the measurable visits
LoadVisitAttribution ==
  /\ op = "idle"
  /\ \E visits \in VisitLists :
       /\ op' = "load_visit_attribution"
       /\ args' = [visits |-> visits]
       /\ ret' = Some(load_visit_attribution(visits))

\* the rep table over the measurable visits and each rep's count of recent
\* visits
LoadRepPerformance ==
  /\ op = "idle"
  /\ \E visits \in RepVisitLists,
        recent \in [{Reps[i] : i \in 1..Len(Reps)} -> RecentVisitCounts] :
       /\ op' = "load_rep_performance"
       /\ args' = [visits |-> visits, recent |-> recent]
       /\ ret' = Some(load_rep_performance(visits, recent))

\* main scores one distributor of the selected lookback period and projects
\* its pipeline
GeneratePipelineForecast ==
  /\ op = "idle"
  /\ \E lookback_days \in LookbackOptions, qty_ordered \in 0..MaxOrdered,
        qty_depleted \in 0..MaxDepleted, hist \in PipelineHistories,
        forecast_weeks \in {1, DefaultForecastWeeks} :
       LET row == StockoutRow(qty_ordered, qty_depleted, lookback_days, hist)
       IN /\ op' = "generate_pipeline_forecast"
          /\ args' = [row |-> row, forecast_weeks |-> forecast_weeks]
          /\ ret' = Some(generate_pipeline_forecast(row, forecast_weeks))

\* main renders the status counts for the selected lookback period and
\* thresholds
StatusCounts ==
  /\ op = "idle"
  /\ \E distributors \in DistributorLists, lookback_days \in LookbackOptions,
        understock_threshold \in UnderstockOptions,
        overstock_threshold \in OverstockOptions :
       LET inventory_df == InventoryDf(distributors, lookback_days)
       IN /\ op' = "status_counts"
          /\ args' = [inventory_df |-> inventory_df,
                      understock_threshold |-> understock_threshold,
                      overstock_threshold |-> overstock_threshold]
          /\ ret' = Some(status_counts(inventory_df, understock_threshold,
                                       overstock_threshold))

\* the result has been consumed; the next request starts afresh
Return ==
  /\ op # "idle"
  /\ op' = "idle"
  /\ args' = None
  /\ ret' = None

ForecastNext == ForecastSingleSeries \/ GenerateEnsembleForecast \/ Return

SpecForecast == Init /\ [][ForecastNext]_vars

ForecastTwiceNext == ForecastSingleSeries \/ ForecastAgain \/ Return

SpecForecastTwice == Init /\ [][ForecastTwiceNext]_vars

ClassifyNext == LoadInventoryData \/ Return

SpecClassify == Init /\ [][ClassifyNext]_vars

StockoutNext == CalculateStockoutRisk \/ Return

SpecStockout == Init /\ [][StockoutNext]_vars

AttributionNext == LoadVisitAttribution \/ Return

RepPerformanceNext == LoadVisitAttribution \/ LoadRepPerformance \/ Return

SpecRepPerformance == Init /\ [][RepPerformanceNext]_vars

PipelineNext == GeneratePipelineForecast \/ Return

SpecPipeline == Init /\ [][PipelineNext]_vars

StatusCountsNext == StatusCounts \/ Return

SpecStatusCounts == Init /\ [][StatusCountsNext]_vars

SpecAttribution == Init /\ [][AttributionNext]_vars

Next ==
  \/ ForecastSingleSeries
  \/ ForecastAgain
  \/ GenerateEnsembleForecast
  \/ LoadInventoryData
  \/ CalculateStockoutRisk
  \/ LoadVisitAttribution
  \/ LoadRepPerformance
  \/ StatusCounts
  \/ GeneratePipelineForecast
  \/ Return

Spec == Init /\ [][Next]_vars

----------------------------------------------------------------------------
(* Properties of the forecaster                                            *)

IsForecastCall == op = "forecast_single_series"

\* the projection before the floor, recomputed from the call's arguments
RawLevels ==
  Levels(RecentMean(args.y), WeeklyTrend(args.y), Mean(args.y), args.forecast_weeks)

\* C1: for a series of non-negative observations of length >= 4 and any
\* horizon, every forecast period has
\* ci95_low <= ci80_low <= point <= ci80_high <= ci95_high.
C1_ConfidenceNesting ==
  (IsForecastCall /\ Len(args.y) >= 4) =>
    \A t \in 1..args.forecast_weeks :
      /\ Val(ret).ci_95_lower[t] <= Val(ret).ci_80_lower[t]
      /\ Val(ret).ci_80_lower[t] <= Val(ret).ensemble[t]
      /\ Val(ret).ensemble[t] <= Val(ret).ci_80_upper[t]
      /\ Val(ret).ci_80_upper[t] <= Val(ret).ci_95_upper[t]

\* a forecast of a series of 8 whose last period is floored while its bands
\* are strictly nested
C1_Witness ==
  /\ IsForecastCall
  /\ Len(args.y) = 8
  /\ args.forecast_weeks = MaxH
  /\ Val(ret).ensemble[MaxH] = FloorOf(args.y)
  /\ Val(ret).ci_95_lower[MaxH] < Val(ret).ci_80_lower[MaxH]
  /\ Val(ret).ci_80_lower[MaxH] < Val(ret).ensemble[MaxH]
  /\ Val(ret).ensemble[MaxH] < Val(ret).ci_80_upper[MaxH]
  /\ Val(ret).ci_80_upper[MaxH] < Val(ret).ci_95_upper[MaxH]

\* C2: for a series of non-negative observations no forecast point and no
\* bound is negative, in any period.
C2_NonNegative ==
  IsForecastCall =>
    \A t \in 1..args.forecast_weeks :
      /\ Val(ret).ensemble[t] >= 0
      /\ Val(ret).ci_80_lower[t] >= 0
      /\ Val(ret).ci_80_upper[t] >= 0
      /\ Val(ret).ci_95_lower[t] >= 0
      /\ Val(ret).ci_95_upper[t] >= 0

\* a falling series whose unfloored projection goes below zero
C2_Witness ==
  /\ IsForecastCall
  /\ \E t \in 1..args.forecast_weeks : RawLevels[t] < 0

\* C3: every point forecast is at least half the mean of the last 4
\* observations, whatever the trend and the horizon.
C3_FloorRespected ==
  IsForecastCall =>
    \A t \in 1..args.forecast_weeks :
      Val(ret).ensemble[t] >= (Mean(LastN(args.y, 4)) * 5) \div 10

\* a steeply falling series with a positive recent mean whose projection
\* drops under the floor and is reported at the floor
C3_Witness ==
  /\ IsForecastCall
  /\ Mean(LastN(args.y, 4)) > 0
  /\ \E t \in 1..args.forecast_weeks :
       /\ RawLevels[t] < (Mean(LastN(args.y, 4)) * 5) \div 10
       /\ Val(ret).ensemble[t] = (Mean(LastN(args.y, 4)) * 5) \div 10

\* rows of trend_df that hold a value for both forecast series
Populated(trend_df) == Len(SelectSeq(trend_df, NotNa))

\* C4: a forecast request on fewer than 4 populated periods reports
\* InsufficientHistory (no result) at both entry points, and exactly 4
\* populated periods are forecast.
C4_InsufficientHistoryReported ==
  /\ (IsForecastCall /\ Len(args.y) < 4) => IsNull(ret)
  /\ (op = "generate_ensemble_forecast" /\ Populated(args.trend_df) < 4)
       => IsNull(ret)
  /\ (op = "generate_ensemble_forecast" /\ Populated(args.trend_df) = 4)
       => ~IsNull(ret)

RECURSIVE TrendAt(_, _)
TrendAt(y, t) ==
  IF t = 0 THEN WeeklyTrend(y) ELSE (92 * TrendAt(y, t - 1)) \div 100

\* level_0 = mean of the last 4 observations,
\* level_t = level_{t-1} + trend_t + 0.05 * (overall_mean - level_{t-1})
RECURSIVE LevelAt(_, _)
LevelAt(y, t) ==
  IF t = 0 THEN Mean(LastN(y, 4))
  ELSE LET prev == LevelAt(y, t - 1)
       IN prev + TrendAt(y, t) + (5 * (Mean(y) - prev)) \div 100

StatedWeeklyTrend(y) ==
  LET n == Len(y)
  IN IF n >= 8
       THEN (Mean(LastN(y, 4)) - Mean(SubSeq(y, n - 7, n - 4))) \div 4
     ELSE (y[n] - y[n - 3]) \div 4

\* C25: weekly_trend is (mean of last 4 - mean of the 4 before them) / 4 for
\* 8 observations or more and (last observation - the observation 4th from
\* the end) / 4 for 4 to 7 observations; the series [40, 50, 60, 70] has the
\* positive trend 30/4 and its first forecast point exceeds its recent mean.
C25_WeeklyTrend ==
  (IsForecastCall /\ Len(args.y) >= 4) =>
    LET y == args.y
        recent_mean == Mean(LastN(y, 4))
    IN /\ Val(ret).ensemble[1]
            = Max(recent_mean + (92 * StatedWeeklyTrend(y)) \div 100
                    + (5 * (Mean(y) - recent_mean)) \div 100,
                  (recent_mean * 5) \div 10)
       /\ y = GrowthSeries =>
            /\ WeeklyTrend(y) = (30 * FP) \div 4
            /\ Val(ret).ensemble[1] > recent_mean

\* the series [40, 50, 60, 70] has been forecast: recent mean 55, first
\* point above it
C25_Witness ==
  /\ IsForecastCall
  /\ args.y = GrowthSeries
  /\ Val(ret).ensemble[1] > 55 * FP

\* the coefficient of variation as stated, in thousandths
StatedCv(y) ==
  IF Mean(y) = 0 THEN 150 ELSE Min((NpStd(y) * 1000) \div Mean(y), 250)

\* every observation of y equals c
IsConstant(y, c) == \A i \in 1..Len(y) : y[i] = c

\* C26: the bands use cv = min(stddev / overall_mean, 0.25), never above
\* 0.25; with overall_mean = 0 nothing is divided, cv is 0.15 and every
\* point and bound of every period is 0; for a constant series cv is 0 and
\* every point and bound equals the constant.
C26_CvCappedAndZeroMean ==
  IsForecastCall =>
    LET y == args.y
        r == Val(ret)
        cv == StatedCv(y)
        spread(t) == Uncertainty(cv, t, r.ensemble[t])
        all(t, v) == /\ r.ensemble[t] = v
                     /\ r.ci_80_lower[t] = v /\ r.ci_80_upper[t] = v
                     /\ r.ci_95_lower[t] = v /\ r.ci_95_upper[t] = v
    IN /\ cv <= 250
       /\ \A t \in 1..args.forecast_weeks :
            /\ r.ci_80_upper[t] = r.ensemble[t] + (8 * spread(t)) \div 10
            /\ r.ci_95_upper[t] = r.ensemble[t] + (12 * spread(t)) \div 10
            /\ Mean(y) = 0 => all(t, 0)
            /\ IsConstant(y, y[1]) => all(t, y[1])

\* a series whose stddev / mean is above 0.25: the bands are those of cv 0.25
C26_Witness ==
  /\ IsForecastCall
  /\ Mean(args.y) > 0
  /\ (NpStd(args.y) * 1000) \div Mean(args.y) > 250
  /\ Val(ret).ensemble[1] > 0
  /\ Val(ret).ci_95_upper[1]
       = Val(ret).ensemble[1] + (12 * Uncertainty(250, 1, Val(ret).ensemble[1])) \div 10

IsEnsembleCall == op = "generate_ensemble_forecast"

\* the frame holds a NaN in one of the two forecast columns
HasNaN(trend_df) == \E i \in 1..Len(trend_df) : ~NotNa(trend_df[i])

\* C16: an input series that holds a NaN (or a negative quantity, or periods
\* out of order) is rejected at the boundary; no forecast value is computed
\* from it.
C16_InvalidInputRejected ==
  (IsEnsembleCall /\ HasNaN(args.trend_df)) => IsNull(ret)

\* the value of column col in calendar week w of trend_df: the row's value
\* when the week has a row, 0 when it has none
WeekValue(trend_df, w, col) ==
  LET rows == SelectSeq(trend_df, LAMBDA r : r.week_start = w)
  IN IF rows = <<>> THEN 0
     ELSE IF col = "qty_depleted" THEN FillNa0(rows[1].qty_depleted)
     ELSE FillNa0(rows[1].order_value)

\* one value per calendar week from the first to the last week of trend_df
CalendarSeries(trend_df, col) ==
  LET first == trend_df[1].week_start
      last == trend_df[Len(trend_df)].week_start
  IN [i \in 1..(last - first + 1) |-> WeekValue(trend_df, first + i - 1, col)]

\* C17: a calendar week missing between the first and the last period is
\* forecast as a week of zero activity: the forecast is that of the series
\* with one value per calendar week, 0 for the missing weeks, and no week is
\* dropped before the statistics are computed.
C17_GapsAreZeroWeeks ==
  (IsEnsembleCall /\ ~HasNaN(args.trend_df) /\ ~IsNull(ret)) =>
    /\ Val(ret).forecast.depletion
         = forecast_single_series(CalendarSeries(args.trend_df, "qty_depleted"),
                                  args.forecast_weeks)
    /\ Val(ret).forecast.orders
         = forecast_single_series(CalendarSeries(args.trend_df, "order_value"),
                                  args.forecast_weeks)

----------------------------------------------------------------------------
(* Properties of the inventory classification                              *)

IsClassifyCall == op = "load_inventory_data"

\* the rule list of the ratio mode, on quantities that are present
RatioModeStatus(ordered_qty, depleted_qty) ==
  IF depleted_qty = 0 /\ ordered_qty > 0 THEN "No Depletion Data"
  ELSE IF ordered_qty = 0 /\ depleted_qty > 0 THEN "No Recent Orders"
  ELSE IF depleted_qty > 0
    THEN IF 10 * ordered_qty > 13 * depleted_qty THEN "Overstock"
         ELSE IF 10 * ordered_qty < 7 * depleted_qty THEN "Understock"
         ELSE "Balanced"
  ELSE "No Data"

\* C6: the ratio-mode status is the first matching rule of: no depletion
\* and orders -> No Depletion Data; no orders and depletion -> No Recent
\* Orders; depletion -> Overstock above 1.3, Understock below 0.7, else
\* Balanced; otherwise No Data.  Both comparisons are strict: a ratio of
\* exactly 1.3 (13/10) or 0.7 (7/10) is Balanced.
C6_RatioModeStatus ==
  (IsClassifyCall /\ ~IsNull(args.qty_ordered) /\ ~IsNull(args.total_qty_depleted)) =>
    /\ Val(ret).inventory_status
         = RatioModeStatus(Val(args.qty_ordered), Val(args.total_qty_depleted))
    /\ (10 * Val(args.qty_ordered) = 13 * Val(args.total_qty_depleted)
          /\ Val(args.total_qty_depleted) > 0)
         => Val(ret).inventory_status = "Balanced"
    /\ (10 * Val(args.qty_ordered) = 7 * Val(args.total_qty_depleted)
          /\ Val(args.total_qty_depleted) > 0)
         => Val(ret).inventory_status = "Balanced"

\* the ratio is exactly 1.3 (26 ordered, 20 depleted) and the row is Balanced
C6_Witness ==
  /\ IsClassifyCall
  /\ args.qty_ordered = Some(26)
  /\ args.total_qty_depleted = Some(20)
  /\ Val(ret).order_depletion_ratio = Some(130)
  /\ Val(ret).inventory_status = "Balanced"

Statuses ==
  {"Overstock", "Understock", "Balanced", "No Depletion Data", "No Recent Orders",
   "No Data"}

\* C7: classification is total over {0, positive, null}^3: one of the six
\* statuses, ratio null exactly when depleted_qty is not > 0, and
\* weeks_of_inventory null exactly when weekly_depletion_rate is not > 0.
C7_ClassificationTotal ==
  IsClassifyCall =>
    /\ ~IsNull(ret)
    /\ Val(ret).inventory_status \in Statuses
    /\ IsNull(Val(ret).order_depletion_ratio) <=> ~SqlGt0(args.total_qty_depleted)
    /\ IsNull(Val(ret).weeks_of_inventory) <=> ~SqlGt0(args.weekly_depletion_rate)

\* C30: the reported order_depletion_ratio is consistent with
\* inventory_status: Overstock has a reported ratio > 1.3, Understock a
\* reported ratio < 0.7, Balanced a non-null reported ratio within
\* [0.7, 1.3], and the three no-data statuses a ratio that is null or 0.
C30_ReportedRatioMatchesStatus ==
  IsClassifyCall =>
    LET status == Val(ret).inventory_status
        ratio == Val(ret).order_depletion_ratio
    IN /\ status = "Overstock" => ~IsNull(ratio) /\ Val(ratio) > 130
       /\ status = "Understock" => ~IsNull(ratio) /\ Val(ratio) < 70
       /\ status = "Balanced" => ~IsNull(ratio) /\ Val(ratio) >= 70 /\ Val(ratio) <= 130
       /\ status \in {"No Depletion Data", "No Recent Orders", "No Data"}
            => IsNull(ratio) \/ Val(ratio) = 0

IsStatusCountsCall == op = "status_counts"

\* C18: in the weeks-of-inventory mode, for cutoffs understock_weeks <=
\* overstock_weeks every entity with depleted_qty > 0 is counted in exactly
\* one of Understock (weeks below understock_weeks), Overstock (weeks above
\* overstock_weeks) and Balanced (between, inclusive), so the three counts
\* sum to the number of entities with depletion data.
C18_WeeksModeBuckets ==
  (IsStatusCountsCall /\ args.understock_threshold <= args.overstock_threshold) =>
    Val(ret).understock_count + Val(ret).overstock_count + Val(ret).balanced_count
      = Cardinality({i \in 1..Len(args.inventory_df) :
                       args.inventory_df[i].total_qty_depleted > 0})

----------------------------------------------------------------------------
(* Properties of the stockout assessment                                   *)

IsStockoutCall == op = "calculate_stockout_risk"

\* C5: risk_score lies in [0, 100] for every combination of non-negative
\* current aggregates (zeros and a null weeks_of_inventory included) and
\* every non-negative history, the empty one included.
C5_RiskScoreBounded ==
  IsStockoutCall =>
    /\ Val(ret).risk_score >= 0
    /\ Val(ret).risk_score <= 100 * FP

\* a distributor whose depletion grew more than tenfold and whose base
\* risk, raised by the trend and consistency modifiers, passes 100 and is
\* reported as 100
C5_Witness ==
  /\ IsStockoutCall
  /\ Val(ret).velocity_trend > 10 * 1000
  /\ ~IsNull(Val(ret).weeks_until_stockout)
  /\ Val(Val(ret).weeks_until_stockout) > 0
  /\ RawRisk(Val(ret).weeks_until_stockout, Val(ret).velocity_trend,
             Val(ret).velocity_cv) > 100 * FP
  /\ Val(ret).risk_score = 100 * FP

\* C8: urgency is N/A whenever weeks_until_stockout is null or
\* adjusted_rate <= 0; otherwise CRITICAL below 3 weeks, HIGH below 6,
\* MEDIUM below 10, LOW otherwise.  No assessment with a null
\* weeks_until_stockout carries LOW, MEDIUM, HIGH or CRITICAL.
C8_UrgencyTier ==
  IsStockoutCall =>
    LET w == Val(ret).weeks_until_stockout
    IN Val(ret).reorder_urgency =
         IF IsNull(w) \/ Val(ret).adjusted_weekly_rate <= 0 THEN "N/A"
         ELSE IF Val(w) < 3 * FP THEN "CRITICAL"
         ELSE IF Val(w) < 6 * FP THEN "HIGH"
         ELSE IF Val(w) < 10 * FP THEN "MEDIUM"
         ELSE "LOW"

\* C12: the reorder quantity is max(0, adjusted_rate * 8 - ordered_qty): never
\* negative, 0 when ordered_qty covers 8 weeks at the adjusted rate and 0
\* when adjusted_rate <= 0.
C12_ReorderQuantity ==
  IsStockoutCall =>
    LET adjusted == Val(ret).adjusted_weekly_rate
        ordered == args.row.total_qty_ordered
        reorder == Val(ret).reorder_qty_suggested
    IN /\ reorder = Max(0, adjusted * 8 - ordered)
       /\ reorder >= 0
       /\ ordered >= adjusted * 8 => reorder = 0
       /\ adjusted <= 0 => reorder = 0

\* a depleting distributor whose orders exceed 8 weeks at the adjusted rate:
\* the difference is negative and nothing is suggested
C12_Witness ==
  /\ IsStockoutCall
  /\ Val(ret).adjusted_weekly_rate > 0
  /\ Val(ret).adjusted_weekly_rate * 8 < args.row.total_qty_ordered
  /\ Val(ret).reorder_qty_suggested = 0

\* C13: weeks_until_stockout is ordered_qty / adjusted_rate when
\* adjusted_rate > 0 and ordered_qty > 0, with adjusted_rate =
\* weekly_depletion_rate * (1 + 0.5 * trend); otherwise weeks_of_inventory
\* when that is positive; otherwise null.  With rate 0, a positive
\* ordered_qty, null weeks_of_inventory and an empty history it is null.
C13_WeeksUntilStockout ==
  IsStockoutCall =>
    LET row == args.row
        trend == Val(ret).velocity_trend
        adjusted_rate ==
          (row.weekly_depletion_rate * (1000 + (trend * 5) \div 10)) \div 1000
        weeks == Val(ret).weeks_until_stockout
    IN /\ weeks =
            IF adjusted_rate > 0 /\ row.total_qty_ordered > 0
              THEN Some((row.total_qty_ordered * FP) \div adjusted_rate)
            ELSE IF ~IsNull(row.weeks_of_inventory) /\ Val(row.weeks_of_inventory) > 0
              THEN row.weeks_of_inventory
            ELSE None
       /\ (/\ row.weekly_depletion_rate = 0 /\ row.total_qty_ordered > 0
           /\ IsNull(row.weeks_of_inventory) /\ args.hist = <<>>) => IsNull(weeks)

\* a distributor with a falling trend and 4 weeks of inventory on record:
\* the estimate is ordered_qty over the adjusted rate, not the 4 weeks
C13_Witness ==
  /\ IsStockoutCall
  /\ Val(ret).velocity_trend < 0
  /\ args.row.total_qty_ordered > 0
  /\ Val(ret).adjusted_weekly_rate > 0
  /\ Val(ret).adjusted_weekly_rate < args.row.weekly_depletion_rate
  /\ args.row.weeks_of_inventory = Some(4 * FP)
  /\ Val(ret).weeks_until_stockout
       = Some((args.row.total_qty_ordered * FP) \div Val(ret).adjusted_weekly_rate)
  /\ Val(ret).weeks_until_stockout # args.row.weeks_of_inventory

\* clamp(x, lo, hi)
Clamp(x, lo, hi) == Max(lo, Min(hi, x))

C15_ScorerInsufficientHistory ==
  (IsStockoutCall /\ Len(args.hist) < 4) => IsNull(ret)

\* C19: the stockout assessment is a function of the current aggregates and
\* the history alone: a call with the same aggregates and history made on
\* any other day returns the same result in every field, predicted date
\* included.
C19_ScorerDeterministic ==
  IsStockoutCall =>
    \A day \in 0..MaxToday :
      ret = Some(calculate_stockout_risk(args.row, args.hist, day))

\* C22: for a history of at least 8 weekly values the velocity trend is
\* (mean of the most recent 4 - mean of the 4 values immediately before
\* those) / mean of those prior 4, and 0 when that prior mean is 0, for every
\* length from 8 up; with fewer than 4 values the trend is 0.
C22_VelocityTrendWindow ==
  IsStockoutCall =>
    LET hist == args.hist
        n == Len(hist)
        recent4 == Mean(LastN(hist, 4))
        prior4 == Mean(SubSeq(hist, n - 7, n - 4))
    IN /\ n >= 8 =>
            Val(ret).velocity_trend
              = IF prior4 > 0 THEN ((recent4 - prior4) * 1000) \div prior4 ELSE 0
       /\ n < 4 => Val(ret).velocity_trend = 0

\* C23: velocity consistency is the coefficient of variation (stddev / mean)
\* of the history for every non-empty history with a positive mean,
\* histories of 1, 2 or 3 values included (a single value has stddev 0), and
\* the default 0.2 only when the history is empty or its mean is 0.
C23_VelocityConsistency ==
  IsStockoutCall =>
    LET hist == args.hist
        stddev == IF Len(hist) = 1 THEN 0 ELSE PdStd(hist)
    IN IF hist # <<>> /\ Mean(hist) > 0
         THEN Val(ret).velocity_cv = (stddev * 1000) \div Mean(hist)
       ELSE Val(ret).velocity_cv = 200

\* C27: for a history of non-negative weekly depletion the velocity trend is
\* >= -1, hence adjusted_weekly_rate >= 0.5 * weekly_depletion_rate, and
\* adjusted_weekly_rate > 0 exactly when weekly_depletion_rate > 0.
C27_TrendAtLeastMinusOne ==
  IsStockoutCall =>
    /\ Val(ret).velocity_trend >= -1000
    /\ Val(ret).adjusted_weekly_rate >= (args.row.weekly_depletion_rate * 5) \div 10
    /\ Val(ret).adjusted_weekly_rate > 0 <=> args.row.weekly_depletion_rate > 0

\* depletion stopped in the last 4 weeks (trend -1) at a distributor with a
\* positive rate: the adjusted rate is half the rate and positive
C27_Witness ==
  /\ IsStockoutCall
  /\ Val(ret).velocity_trend = -1000
  /\ args.row.weekly_depletion_rate > 0
  /\ Val(ret).adjusted_weekly_rate = (args.row.weekly_depletion_rate * 5) \div 10
  /\ Val(ret).adjusted_weekly_rate > 0

----------------------------------------------------------------------------
(* Properties of the pipeline forecast                                     *)

IsPipelineCall == op = "generate_pipeline_forecast"

FlLt(a, b) == a.num * b.den < b.num * a.den

\* C28: generate_pipeline_forecast emits exactly forecast_weeks rows per
\* distributor, with week_number 1..forecast_weeks in increasing order;
\* projected_inventory is never negative and never increases from one week
\* to the next; is_stockout is true exactly when projected_inventory is 0,
\* and once true it stays true.
C28_PipelineRows ==
  IsPipelineCall =>
    LET rows == Val(ret)
        n == args.forecast_weeks
    IN /\ DOMAIN rows = 1..n
       /\ \A i \in 1..n :
            /\ rows[i].week_number = i
            /\ rows[i].projected_inventory.num >= 0
            /\ rows[i].is_stockout <=> rows[i].projected_inventory.num = 0
       /\ \A i \in 2..n :
            /\ FlLe(rows[i].projected_inventory, rows[i - 1].projected_inventory)
            /\ rows[i - 1].is_stockout => rows[i].is_stockout

\* a distributor that still has inventory after the first week, less after
\* the second, runs out before the horizon and is flagged to the end
C28_Witness ==
  /\ IsPipelineCall
  /\ args.forecast_weeks = DefaultForecastWeeks
  /\ ~Val(ret)[1].is_stockout
  /\ FlLt(Val(ret)[2].projected_inventory, Val(ret)[1].projected_inventory)
  /\ Val(ret)[2].projected_inventory.num > 0
  /\ Val(ret)[DefaultForecastWeeks - 1].is_stockout
  /\ Val(ret)[DefaultForecastWeeks].is_stockout
  /\ Val(ret)[DefaultForecastWeeks].projected_inventory.num = 0

\* C29: when adjusted_weekly_rate > 0 and qty_ordered > 0, a pipeline row
\* is flagged is_stockout exactly when its week_number >=
\* weeks_until_stockout of the assessment.
C29_PipelineAgreesWithAssessment ==
  (/\ IsPipelineCall
   /\ args.row.adjusted_weekly_rate.num > 0
   /\ args.row.qty_ordered_period > 0) =>
    \A i \in 1..args.forecast_weeks :
      Val(ret)[i].is_stockout
        <=> FlLe(Val(args.row.weeks_until_stockout), Fl(Val(ret)[i].week_number, 1))

----------------------------------------------------------------------------
(* Properties of the visit attribution                                     *)

IsAttributionCall == op = "load_visit_attribution"

\* volume of a product in a window; a product with no row has none
UnitsOf(x) == IF IsNull(x) THEN 0 ELSE Val(x)

\* the claimed attribution of one product: new when it is absent from the
\* baseline or zero there and sold after; incremental when it is in both
\* with a positive baseline and grew
ClaimedNew(visit, p) ==
  IF UnitsOf(visit.units_before[p]) = 0 /\ UnitsOf(visit.units_after[p]) > 0
    THEN UnitsOf(visit.units_after[p]) ELSE 0
ClaimedIncremental(visit, p) ==
  IF /\ ~IsNull(visit.units_before[p]) /\ ~IsNull(visit.units_after[p])
     /\ Val(visit.units_before[p]) > 0
     /\ Val(visit.units_after[p]) > Val(visit.units_before[p])
    THEN Val(visit.units_after[p]) - Val(visit.units_before[p]) ELSE 0

\* C9: per product, the whole follow-up volume counts as new_product_units
\* when the product is absent from the baseline or has baseline volume zero
\* and sold after the visit; followup - baseline counts as incremental_units
\* when the product is in both and grew; nothing otherwise.
C9_AttributionRules ==
  (IsAttributionCall /\ Len(args.visits) = 1) =>
    LET visit == args.visits[1]
        new(p) == ClaimedNew(visit, p)
        inc(p) == ClaimedIncremental(visit, p)
    IN /\ Val(ret).new_pod_units = SumOver(Products, new)
       /\ Val(ret).incremental_units = SumOver(Products, inc)

\* every product of the visit sold no more after the visit than before
Declined(visit) ==
  \A i \in 1..Len(Products) :
    UnitsOf(visit.units_after[Products[i]]) <= UnitsOf(visit.units_before[Products[i]])

\* C10: when every product's follow-up volume is <= its baseline volume the
\* visit's incremental_units and new_product_units are 0 and the visit is
\* not converted; a decline never produces negative credit.
C10_AttributionAsymmetry ==
  IsAttributionCall =>
    /\ \A i \in 1..Len(args.visits) :
         (Declined(args.visits[i]) /\ ~IsNull(Val(ret).visit_totals[i])) =>
           /\ Val(Val(ret).visit_totals[i]).new_pod_units = 0
           /\ Val(Val(ret).visit_totals[i]).incremental_units = 0
           /\ Val(Val(ret).visit_totals[i]).total_attributed_units = 0
    /\ Val(ret).visits_converted
         <= Cardinality({i \in 1..Len(args.visits) : ~Declined(args.visits[i])})
    /\ (\A i \in 1..Len(args.visits) : Declined(args.visits[i])) =>
         /\ Val(ret).new_pod_units = 0
         /\ Val(ret).incremental_units = 0
         /\ Val(ret).visits_converted = 0

\* a single visit after which SKU1 fell from 15 to 10 and SKU2 from 10 to 8:
\* it is measurable, and nothing is attributed to it
C10_Witness ==
  /\ IsAttributionCall
  /\ Len(args.visits) = 1
  /\ args.visits[1].units_before["SKU1"] = Some(15)
  /\ args.visits[1].units_after["SKU1"] = Some(10)
  /\ args.visits[1].units_before["SKU2"] = Some(10)
  /\ args.visits[1].units_after["SKU2"] = Some(8)
  /\ Val(ret).measurable_visits = 1
  /\ Val(ret).visits_converted = 0
  /\ Val(ret).incremental_units = 0
  /\ Val(ret).new_pod_units = 0

\* C11: for every visit new_pod_units >= 0 and incremental_units >= 0, and
\* the visit is counted as converted exactly when their sum is > 0; a visit
\* with no follow-up activity is measurable and not converted.
C11_ConvertedIffAttributed ==
  IsAttributionCall =>
    LET n == Len(args.visits)
        vt(i) == Val(ret).visit_totals[i]
        credit(i) ==
          IF IsNull(vt(i)) THEN 0
          ELSE Val(vt(i)).new_pod_units + Val(vt(i)).incremental_units
    IN /\ \A i \in 1..n :
            ~IsNull(vt(i)) => /\ Val(vt(i)).new_pod_units >= 0
                              /\ Val(vt(i)).incremental_units >= 0
       /\ Val(ret).measurable_visits = n
       /\ Val(ret).visits_converted = Cardinality({i \in 1..n : credit(i) > 0})
       /\ n = 1 => (Val(ret).visits_converted = 1
                     <=> Val(ret).new_pod_units + Val(ret).incremental_units > 0)

\* two measurable visits: the first has no follow-up sales at all, the
\* second has follow-up sales that did not grow for SKU1 and a new SKU2;
\* one visit is converted
C11_Witness ==
  /\ IsAttributionCall
  /\ Len(args.visits) = 2
  /\ IsNull(Val(ret).visit_totals[1])
  /\ args.visits[2].units_before["SKU1"] = Some(10)
  /\ args.visits[2].units_after["SKU1"] = Some(10)
  /\ args.visits[2].units_before["SKU2"] = None
  /\ args.visits[2].units_after["SKU2"] = Some(10)
  /\ Val(ret).measurable_visits = 2
  /\ Val(ret).visits_converted = 1

\* the attribution of one visit taken alone
Alone(visit) == load_visit_attribution(<<visit>>)

\* C21: each visit's attribution depends on its own baseline and follow-up
\* volumes only, whatever other visits there are, and the overall and the
\* per-rep totals are the sums (the converted count the count) of the
\* per-visit results.
C21_PerVisitIndependence ==
  LET n == Len(args.visits)
      alone(i) == Alone(args.visits[i])
      new(i) == alone(i).new_pod_units
      inc(i) == alone(i).incremental_units
      conv(i) == alone(i).visits_converted
      idx == [i \in 1..n |-> i]
  IN /\ IsAttributionCall =>
          /\ \A i \in 1..n : Val(ret).visit_totals[i] = alone(i).visit_totals[1]
          /\ Val(ret).new_pod_units = SumOver(idx, new)
          /\ Val(ret).incremental_units = SumOver(idx, inc)
          /\ Val(ret).visits_converted = SumOver(idx, conv)
     /\ op = "load_rep_performance" =>
          \A k \in 1..Len(Reps) :
            LET own == SelectSeq(idx, LAMBDA i : args.visits[i].rep_id = Reps[k])
            IN ~IsNull(Val(ret)[k]) =>
                 /\ Val(Val(ret)[k]).new_pod_units = SumOver(own, new)
                 /\ Val(Val(ret)[k]).incremental_units = SumOver(own, inc)
                 /\ Val(Val(ret)[k]).visits_converted = SumOver(own, conv)
                 /\ Val(Val(ret)[k]).measurable_visits = Len(own)

\* two reps with one measurable visit each: rep1's visit gains a new SKU1,
\* rep2's visit grows SKU2 nowhere; each rep's row carries its own visit only
C21_Witness ==
  /\ op = "load_rep_performance"
  /\ Len(args.visits) = 2
  /\ args.visits[1].rep_id = "rep1"
  /\ args.visits[2].rep_id = "rep2"
  /\ ~IsNull(Val(ret)[1])
  /\ ~IsNull(Val(ret)[2])
  /\ Val(Val(ret)[1]).new_pod_units = 10
  /\ Val(Val(ret)[1]).visits_converted = 1
  /\ Val(Val(ret)[2]).measurable_visits = 1
  /\ Val(Val(ret)[2]).visits_converted = 0
  /\ Val(Val(ret)[2]).total_attributed_units = 0

====
